---------------------------- MODULE Spec2Model ----------------------------
(***************************************************************************)
(* Model of the battle engine of Clash of Wizards (useBattleEngine) and of *)
(* the way the Battle view starts it.  The engine state is the React state *)
(* `state` of the hook; the pending enemy-turn timeout is `timer`.         *)
(* Display-only fields (id, image, quote, description) are left out; the   *)
(* Czech log texts are written without diacritics.                         *)
(***************************************************************************)
EXTENDS Integers, Sequences, FiniteSets, TLC

VARIABLES props, state, timer, call

vars == <<props, state, timer, call>>

(* ------------------------------ bounds --------------------------------- *)

\* No operation is invoked any more once the turn counter has reached MaxTurn.
MaxTurn == 6

\* The same limit for the specification with fairness.
MaxFairTurn == 4

(* ------------------------------ helpers -------------------------------- *)

Min(a, b) == IF a < b THEN a ELSE b

Max(a, b) == IF a > b THEN a ELSE b

\* `null` / `undefined` of the source.
Null == [null |-> TRUE]

(* ------------------------------- data ---------------------------------- *)

Ability(n, t, p, c) ==
    [name |-> n, type |-> t, power |-> p, cooldown |-> c, currentCooldown |-> 0]

characters ==
    << [name |-> "Valdrin Embercloak", maxHP |-> 100, currentHP |-> 100,
        shield |-> 0, statusEffects |-> <<>>,
        abilities |-> << Ability("Flame Lash", "attack", 20, 0),
                         Ability("Aegis Ward", "shield", 35, 2),
                         Ability("Vital Surge", "heal", 25, 3),
                         Ability("Ember Vortex", "attack", 35, 4),
                         Ability("Molten Shell", "shield", 35, 4),
                         Ability("Infernal Blast", "attack", 45, 5) >>],
       [name |-> "Elyndra Moonshade", maxHP |-> 90, currentHP |-> 90,
        shield |-> 0, statusEffects |-> <<>>,
        abilities |-> << Ability("Flame Lash", "attack", 20, 0),
                         Ability("Aegis Ward", "shield", 35, 2),
                         Ability("Vital Surge", "heal", 25, 3),
                         Ability("Whispering Veil", "heal", 40, 3),
                         Ability("Chrono Rift", "attack", 30, 4),
                         Ability("Arcane Trap", "attack", 25, 4) >>],
       [name |-> "Thornak Ironsoul", maxHP |-> 110, currentHP |-> 110,
        shield |-> 0, statusEffects |-> <<>>,
        abilities |-> << Ability("Flame Lash", "attack", 20, 0),
                         Ability("Aegis Ward", "shield", 35, 2),
                         Ability("Vital Surge", "heal", 25, 3),
                         Ability("Phantom Strike", "attack", 35, 3),
                         Ability("Steelbound Barrier", "shield", 40, 5),
                         Ability("Chaos Bomb", "attack", 40, 4) >>] >>

Difficulties == {"easy", "medium", "hard"}

\* The three enemy templates of data/enemies, one per difficulty tier.
enemiesByDifficulty ==
    [d \in Difficulties |->
        CASE d = "easy" ->
               [name |-> "Grim Imp", maxHP |-> 60, currentHP |-> 60,
                shield |-> 0, statusEffects |-> <<>>,
                abilities |-> << Ability("Claw", "attack", 20, 0),
                                 Ability("Mend", "heal", 15, 2) >>]
          [] d = "medium" ->
               [name |-> "Bone Warden", maxHP |-> 80, currentHP |-> 80,
                shield |-> 0, statusEffects |-> <<>>,
                abilities |-> << Ability("Hex Bolt", "attack", 45, 2),
                                 Ability("Bone Ward", "shield", 15, 1) >>]
          [] d = "hard" ->
               [name |-> "Dread Lich", maxHP |-> 100, currentHP |-> 100,
                shield |-> 0, statusEffects |-> <<>>,
                abilities |-> << Ability("Doom Ray", "attack", 50, 0),
                                 Ability("Dark Pact", "heal", 30, 1),
                                 Ability("Grave Shell", "shield", 25, 2) >>] ]

\* What the selection page hands to the Battle view.
Props == [player : 1..Len(characters), difficulty : Difficulties]

(* --------------------------- Battle view ------------------------------- *)

\* Battle.tsx memoPlayer: the chosen character at full HP, no shield, no cooldowns.
memoPlayer(player) ==
    [player EXCEPT !.currentHP = player.maxHP,
                   !.shield = 0,
                   !.statusEffects = <<>>,
                   !.abilities = [i \in DOMAIN player.abilities |->
                                     [player.abilities[i] EXCEPT !.currentCooldown = 0]]]

\* Battle.tsx enemy: the template of the difficulty tier, reset the same way.
memoEnemy(difficulty) ==
    LET enemyTemplate == enemiesByDifficulty[difficulty]
    IN [enemyTemplate EXCEPT !.currentHP = enemyTemplate.maxHP,
                             !.shield = 0,
                             !.statusEffects = <<>>,
                             !.abilities = [i \in DOMAIN enemyTemplate.abilities |->
                                 [enemyTemplate.abilities[i] EXCEPT !.currentCooldown = 0]]]

(* --------------------------- battle engine ----------------------------- *)

\* An initial state whose log starts empty.
resetStateEmptyLog(player, enemy) ==
    [player       |-> [player EXCEPT !.shield = 0, !.statusEffects = <<>>],
     enemy        |-> [enemy EXCEPT !.shield = 0, !.statusEffects = <<>>],
     turn         |-> 0,
     log          |-> <<>>,
     lastAttacker |-> "null",
     lastEffect   |-> Null,
     gameOver     |-> FALSE]

\* The state set by the initialisation effect for a combatant pair.
resetState(player, enemy) ==
    [player       |-> [player EXCEPT !.shield = 0, !.statusEffects = <<>>],
     enemy        |-> [enemy EXCEPT !.shield = 0, !.statusEffects = <<>>],
     turn         |-> 0,
     log          |-> <<"Souboj zacal!">>,
     lastAttacker |-> "null",
     lastEffect   |-> Null,
     gameOver     |-> FALSE]

\* endTurn that forgets to advance the turn counter.
endTurnNoAdvance(nextState) ==
    LET gameOver == nextState.player.currentHP <= 0 \/ nextState.enemy.currentHP <= 0
    IN [nextState EXCEPT !.gameOver = gameOver]

\* endTurn testing the HP with < 0 instead of <= 0.
endTurnStrict(nextState) ==
    LET gameOver == nextState.player.currentHP < 0 \/ nextState.enemy.currentHP < 0
    IN [nextState EXCEPT !.turn = nextState.turn + 1, !.gameOver = gameOver]

\* endTurn looking at the player's HP only.
endTurnPlayerOnly(nextState) ==
    LET gameOver == nextState.player.currentHP <= 0
    IN [nextState EXCEPT !.turn = nextState.turn + 1, !.gameOver = gameOver]

endTurn(nextState) ==
    LET gameOver == nextState.player.currentHP <= 0 \/ nextState.enemy.currentHP <= 0
    IN [nextState EXCEPT !.turn = nextState.turn + 1, !.gameOver = gameOver]

\* Attack branch: the part of the damage the target's shield takes.
absorbOf(target, ability) ==
    IF target.shield > 0 THEN Min(ability.power, target.shield) ELSE 0

\* The attack branch without shield absorption.
attackTargetNoShield(target, ability) ==
    [target EXCEPT !.currentHP = Max(target.currentHP - ability.power, 0)]

\* The attack branch without the floor of the HP at 0.
attackTargetNoFloor(target, ability) ==
    LET absorb == absorbOf(target, ability)
        damage == ability.power - absorb
    IN [target EXCEPT !.shield = target.shield - absorb,
                      !.currentHP = target.currentHP - damage]

\* Attack branch: the target after the hit.
attackTarget(target, ability) ==
    LET absorb == absorbOf(target, ability)
        damage == ability.power - absorb
    IN [target EXCEPT !.shield = target.shield - absorb,
                      !.currentHP = Max(target.currentHP - damage, 0)]

\* The heal amount without the cap at maxHP.
healedOfUncapped(source, ability) ==
    ability.power

\* Heal branch: the amount healed.
healedOf(source, ability) ==
    Min(ability.power, source.maxHP - source.currentHP)

\* Heal branch: the source after the heal.
healSource(source, ability) ==
    [source EXCEPT !.currentHP = source.currentHP + healedOf(source, ability)]

\* The shield branch replacing the shield instead of adding to it.
shieldSourceReplace(source, ability) ==
    [source EXCEPT !.shield = ability.power]

\* Shield branch: the source after the cast.
shieldSource(source, ability) ==
    [source EXCEPT !.shield = source.shield + ability.power]

\* The cooldown update decrementing the other abilities without the test > 0.
updatedAbilitiesNoFloor(abilities, ability) ==
    [i \in DOMAIN abilities |->
        IF abilities[i].name = ability.name
        THEN [abilities[i] EXCEPT !.currentCooldown = abilities[i].cooldown]
        ELSE [abilities[i] EXCEPT !.currentCooldown = abilities[i].currentCooldown - 1]]

\* The cooldown update counting the cast itself as the first turn of the cooldown.
updatedAbilitiesCountCast(abilities, ability) ==
    [i \in DOMAIN abilities |->
        IF abilities[i].name = ability.name
        THEN [abilities[i] EXCEPT !.currentCooldown = Max(abilities[i].cooldown - 1, 0)]
        ELSE IF abilities[i].currentCooldown > 0
             THEN [abilities[i] EXCEPT !.currentCooldown = abilities[i].currentCooldown - 1]
             ELSE abilities[i]]

\* The cooldown update starting the cooldown of the cast ability one too high.
updatedAbilitiesPlusOne(abilities, ability) ==
    [i \in DOMAIN abilities |->
        IF abilities[i].name = ability.name
        THEN [abilities[i] EXCEPT !.currentCooldown = abilities[i].cooldown + 1]
        ELSE IF abilities[i].currentCooldown > 0
             THEN [abilities[i] EXCEPT !.currentCooldown = abilities[i].currentCooldown - 1]
             ELSE abilities[i]]

\* The cooldown update resting every cast ability for at least one turn.
updatedAbilitiesMinOne(abilities, ability) ==
    [i \in DOMAIN abilities |->
        IF abilities[i].name = ability.name
        THEN [abilities[i] EXCEPT !.currentCooldown = Max(abilities[i].cooldown, 1)]
        ELSE IF abilities[i].currentCooldown > 0
             THEN [abilities[i] EXCEPT !.currentCooldown = abilities[i].currentCooldown - 1]
             ELSE abilities[i]]

\* The cooldown update over the source's abilities.
updatedAbilities(abilities, ability) ==
    [i \in DOMAIN abilities |->
        IF abilities[i].name = ability.name
        THEN [abilities[i] EXCEPT !.currentCooldown = abilities[i].cooldown]
        ELSE IF abilities[i].currentCooldown > 0
             THEN [abilities[i] EXCEPT !.currentCooldown = abilities[i].currentCooldown - 1]
             ELSE abilities[i]]

\* applyAbility reporting the damage effect on the acting side.
applyAbilityEffectOnSource(source, target, ability, isPlayer) ==
    LET damage  == ability.power - absorbOf(target, ability)
        healed  == healedOf(source, ability)
        own     == IF isPlayer THEN "player" ELSE "enemy"
        other   == IF isPlayer THEN "enemy" ELSE "player"
        logText == source.name \o " pouzil " \o ability.name
        sourceCopy ==
            CASE ability.type = "heal"   -> healSource(source, ability)
              [] ability.type = "shield" -> shieldSource(source, ability)
              [] OTHER                   -> source
        targetCopy ==
            IF ability.type = "attack" THEN attackTarget(target, ability) ELSE target
        effect ==
            CASE ability.type = "attack" ->
                   [type |-> "damage", target |-> own, value |-> damage]
              [] ability.type = "heal" ->
                   [type |-> "heal", target |-> own, value |-> healed]
              [] ability.type = "shield" ->
                   [type |-> "shield", target |-> own, value |-> ability.power]
              [] OTHER -> Null
        logEntry ==
            CASE ability.type = "attack" ->
                   logText \o " a zpusobil " \o ToString(damage) \o " poskozeni."
              [] ability.type = "heal" ->
                   logText \o " a vylecil se o " \o ToString(healed) \o " HP."
              [] ability.type = "shield" ->
                   logText \o " a ziskal stit o sile " \o ToString(ability.power) \o "."
              [] OTHER -> logText
    IN [updatedSource |-> [sourceCopy EXCEPT
                              !.abilities = updatedAbilities(sourceCopy.abilities, ability)],
        updatedTarget |-> targetCopy,
        effect        |-> effect,
        logEntry      |-> logEntry]

applyAbility(source, target, ability, isPlayer) ==
    LET damage  == ability.power - absorbOf(target, ability)
        healed  == healedOf(source, ability)
        own     == IF isPlayer THEN "player" ELSE "enemy"
        other   == IF isPlayer THEN "enemy" ELSE "player"
        logText == source.name \o " pouzil " \o ability.name
        sourceCopy ==
            CASE ability.type = "heal"   -> healSource(source, ability)
              [] ability.type = "shield" -> shieldSource(source, ability)
              [] OTHER                   -> source
        targetCopy ==
            IF ability.type = "attack" THEN attackTarget(target, ability) ELSE target
        effect ==
            CASE ability.type = "attack" ->
                   [type |-> "damage", target |-> other, value |-> damage]
              [] ability.type = "heal" ->
                   [type |-> "heal", target |-> own, value |-> healed]
              [] ability.type = "shield" ->
                   [type |-> "shield", target |-> own, value |-> ability.power]
              [] OTHER -> Null
        logEntry ==
            CASE ability.type = "attack" ->
                   logText \o " a zpusobil " \o ToString(damage) \o " poskozeni."
              [] ability.type = "heal" ->
                   logText \o " a vylecil se o " \o ToString(healed) \o " HP."
              [] ability.type = "shield" ->
                   logText \o " a ziskal stit o sile " \o ToString(ability.power) \o "."
              [] OTHER -> logText
    IN [updatedSource |-> [sourceCopy EXCEPT
                              !.abilities = updatedAbilities(sourceCopy.abilities, ability)],
        updatedTarget |-> targetCopy,
        effect        |-> effect,
        logEntry      |-> logEntry]

\* The validation of useAbility without the cooldown test.
useAbilityRejectsNoCooldown(s, ability) ==
    \/ s = Null
    \/ s.turn % 2 # 0
    \/ s.gameOver

\* The validation of useAbility without the gameOver test.
useAbilityRejectsNoGameOver(s, ability) ==
    \/ s = Null
    \/ s.turn % 2 # 0
    \/ ability.currentCooldown > 0

\* The validation of useAbility without the turn test.
useAbilityRejectsNoParity(s, ability) ==
    \/ s = Null
    \/ ability.currentCooldown > 0
    \/ s.gameOver

\* The validation at the head of useAbility: TRUE when the call is ignored.
useAbilityRejects(s, ability) ==
    \/ s = Null
    \/ s.turn % 2 # 0
    \/ ability.currentCooldown > 0
    \/ s.gameOver

\* useAbility starting the log over with the new line.
useAbilityLogReplaced(s, ability) ==
    IF useAbilityRejects(s, ability) THEN Null
    ELSE LET r == applyAbility(s.player, s.enemy, ability, TRUE)
             nextState == [s EXCEPT !.player = r.updatedSource,
                                    !.enemy = r.updatedTarget,
                                    !.log = <<r.logEntry>>,
                                    !.lastAttacker = "player",
                                    !.lastEffect = r.effect,
                                    !.gameOver = r.updatedTarget.currentHP <= 0]
         IN endTurn(nextState)

\* useAbility: Null when the call returns early, else the state it sets.
useAbility(s, ability) ==
    IF useAbilityRejects(s, ability) THEN Null
    ELSE LET r == applyAbility(s.player, s.enemy, ability, TRUE)
             nextState == [s EXCEPT !.player = r.updatedSource,
                                    !.enemy = r.updatedTarget,
                                    !.log = Append(s.log, r.logEntry),
                                    !.lastAttacker = "player",
                                    !.lastEffect = r.effect,
                                    !.gameOver = r.updatedTarget.currentHP <= 0]
         IN endTurn(nextState)

\* The enemy abilities without the cooldown filter.
availableAll(enemy) ==
    enemy.abilities

\* The enemy abilities that are not on cooldown.
available(enemy) ==
    SelectSeq(enemy.abilities, LAMBDA a : a.currentCooldown = 0)

\* The validation at the head of enemyTurn: TRUE when it returns early.
enemyTurnRejects(s) ==
    \/ s = Null
    \/ s.turn % 2 # 1
    \/ s.gameOver
    \/ Len(available(s.enemy)) = 0

\* enemyTurn storing the updated source as the player and the updated target
\* as the enemy, the way useAbility does.
enemyTurnSwapped(s, k) ==
    IF enemyTurnRejects(s) THEN Null
    ELSE LET ability == available(s.enemy)[k + 1]
             r == applyAbility(s.enemy, s.player, ability, FALSE)
             nextState == [s EXCEPT !.player = r.updatedSource,
                                    !.enemy = r.updatedTarget,
                                    !.log = Append(s.log, r.logEntry),
                                    !.lastAttacker = "enemy",
                                    !.lastEffect = r.effect,
                                    !.gameOver = r.updatedTarget.currentHP <= 0]
         IN endTurn(nextState)

\* enemyTurn recording the player as the last attacker, the way useAbility does.
enemyTurnAsPlayer(s, k) ==
    IF enemyTurnRejects(s) THEN Null
    ELSE LET ability == available(s.enemy)[k + 1]
             r == applyAbility(s.enemy, s.player, ability, FALSE)
             nextState == [s EXCEPT !.player = r.updatedTarget,
                                    !.enemy = r.updatedSource,
                                    !.log = Append(s.log, r.logEntry),
                                    !.lastAttacker = "player",
                                    !.lastEffect = r.effect,
                                    !.gameOver = r.updatedTarget.currentHP <= 0]
         IN endTurn(nextState)

\* enemyTurn with the random index k (0-based): Null when it returns early.
enemyTurn(s, k) ==
    IF enemyTurnRejects(s) THEN Null
    ELSE LET ability == available(s.enemy)[k + 1]
             r == applyAbility(s.enemy, s.player, ability, FALSE)
             nextState == [s EXCEPT !.player = r.updatedTarget,
                                    !.enemy = r.updatedSource,
                                    !.log = Append(s.log, r.logEntry),
                                    !.lastAttacker = "enemy",
                                    !.lastEffect = r.effect,
                                    !.gameOver = r.updatedTarget.currentHP <= 0]
         IN endTurn(nextState)

\* The dependency list of the enemy-timer effect.
timerDeps(s) ==
    IF s = Null THEN Null ELSE [turn |-> s.turn, gameOver |-> s.gameOver]

\* The enemy-timer effect without its cleanup: a timeout that was armed stays
\* pending when the dependencies change and no new one is armed.
timerEffectNoCleanup(old, new, t) ==
    IF timerDeps(old) = timerDeps(new) THEN t
    ELSE IF new = Null \/ new.gameOver THEN t
    ELSE IF new.turn % 2 = 1 THEN new
    ELSE t

\* The enemy-timer effect arming on the player's turns.
timerEffectWrongParity(old, new, t) ==
    IF timerDeps(old) = timerDeps(new) THEN t
    ELSE IF new = Null \/ new.gameOver THEN Null
    ELSE IF new.turn % 2 = 0 THEN new
    ELSE Null

\* The enemy-timer effect without its dependency list: it arms a timeout
\* after every call, whether or not turn or gameOver changed.
timerEffectNoDeps(old, new, t) ==
    IF new = Null \/ new.gameOver THEN Null
    ELSE IF new.turn % 2 = 1 THEN new
    ELSE Null

\* The enemy-timer effect after a render: `old` is the state of the previous
\* render, `new` the state rendered now, `t` the pending timeout (the state
\* its callback closes over, or Null).
timerEffect(old, new, t) ==
    IF timerDeps(old) = timerDeps(new) THEN t
    ELSE IF new = Null \/ new.gameOver THEN Null
    ELSE IF new.turn % 2 = 1 THEN new
    ELSE Null

(* ------------------------------ actions -------------------------------- *)

\* The record of the last operation: its name, the ability it was given or
\* chose, the state it found (for a reset only the turn and gameOver of the
\* state it replaced) and whether it set a new state.
NoCall == [op |-> "none", ability |-> Null, pre |-> Null, set |-> FALSE]

\* The combatant pair the Battle view passes to the hook.
pairOf(p) == resetState(memoPlayer(characters[p.player]), memoEnemy(p.difficulty))

Init ==
    /\ props \in Props
    /\ state = Null
    /\ timer = Null
    /\ call = NoCall

\* First render: the initialisation effect runs for the chosen pair.
Mount ==
    /\ state = Null
    /\ state' = pairOf(props)
    /\ timer' = timerEffect(state, state', timer)
    /\ call' = [op |-> "reset", ability |-> Null, pre |-> timerDeps(state), set |-> TRUE]
    /\ UNCHANGED props

\* A new player or difficulty is supplied: the initialisation effect runs again.
ChangePair ==
    /\ state # Null
    /\ \E p \in Props :
          /\ props' = p
          /\ state' = pairOf(p)
    /\ timer' = timerEffect(state, state', timer)
    /\ call' = [op |-> "reset", ability |-> Null, pre |-> timerDeps(state), set |-> TRUE]

\* The caller invokes useAbility with one of the player's abilities.
UseAbility ==
    /\ IF state = Null THEN TRUE ELSE state.turn < MaxTurn
    /\ LET shown == IF state = Null THEN memoPlayer(characters[props.player]).abilities
                    ELSE state.player.abilities
       IN \E i \in DOMAIN shown :
             LET r == useAbility(state, shown[i])
             IN /\ state' = IF r = Null THEN state ELSE r
                /\ call' = [op |-> "useAbility", ability |-> shown[i],
                            pre |-> state, set |-> r # Null]
    /\ timer' = timerEffect(state, state', timer)
    /\ UNCHANGED props

\* The pending timeout fires and runs enemyTurn of the render that armed it.
EnemyTurn ==
    /\ timer # Null
    /\ state.turn < MaxTurn
    /\ \E k \in 0 .. Max(Len(available(timer.enemy)), 1) - 1 :
          \E r \in {enemyTurn(timer, k)} :
             \E s \in {IF r = Null THEN state ELSE r} :
                /\ state' = s
                /\ call' = [op |-> "enemyTurn",
                            ability |-> IF r = Null THEN Null
                                        ELSE available(timer.enemy)[k + 1],
                            pre |-> state, set |-> r # Null]
                /\ timer' = timerEffect(state, s, Null)
    /\ UNCHANGED props

Next == Mount \/ ChangePair \/ UseAbility \/ EnemyTurn

Spec == Init /\ [][Next]_vars

\* The specification with fairness follows battles up to turn MaxFairTurn.
FairTurn == IF state = Null THEN TRUE ELSE state.turn < MaxFairTurn

FairUseAbility == FairTurn /\ UseAbility

FairEnemyTurn == FairTurn /\ EnemyTurn

FairNext == Mount \/ ChangePair \/ FairUseAbility \/ FairEnemyTurn

\* The timeout armed by the enemy-timer effect fires after its delay unless
\* it is cleared first.
FairSpec == Init /\ [][FairNext]_vars /\ WF_vars(FairEnemyTurn)

(* ------------------------------ properties ----------------------------- *)

\* The side that acted in the last operation and the side it acted on,
\* before and after the operation.
Acted == call.op \in {"useAbility", "enemyTurn"} /\ call.set

SourceBefore == IF call.op = "useAbility" THEN call.pre.player ELSE call.pre.enemy

SourceAfter == IF call.op = "useAbility" THEN state.player ELSE state.enemy

TargetBefore == IF call.op = "useAbility" THEN call.pre.enemy ELSE call.pre.player

TargetAfter == IF call.op = "useAbility" THEN state.enemy ELSE state.player

\* C1: turn parity.  useAbility changes the battle state only when turn is
\* even, enemyTurn only when turn is odd; every operation that changes the
\* state increases turn by exactly 1; an enemyTurn that finds no usable
\* ability changes nothing and leaves turn as it was.
C1_TurnParity ==
    /\ (call.op = "useAbility" /\ state # call.pre) =>
          /\ call.pre # Null
          /\ call.pre.turn % 2 = 0
          /\ state.turn = call.pre.turn + 1
    /\ (call.op = "enemyTurn" /\ state # call.pre) =>
          /\ call.pre.turn % 2 = 1
          /\ state.turn = call.pre.turn + 1
    /\ (call.op = "enemyTurn" /\ ~call.set) =>
          /\ state = call.pre
          /\ state.turn % 2 = 1

\* A player action answered by an enemy action, each advancing the turn.
C1_Witness ==
    /\ call.op = "enemyTurn" /\ call.set
    /\ call.pre.lastAttacker = "player"
    /\ call.pre.turn = 1
    /\ state.turn = 2

\* C2: a useAbility call leaves the whole battle state unchanged when the
\* engine is uninitialized, turn is odd, the passed ability is on cooldown
\* or gameOver is true; in every other case it resolves an action.
C2_UseAbilityIgnored ==
    call.op = "useAbility" =>
       IF \/ call.pre = Null
          \/ call.pre.turn % 2 = 1
          \/ call.ability.currentCooldown > 0
          \/ call.pre.gameOver
       THEN state = call.pre /\ ~call.set
       ELSE /\ call.set
            /\ state.lastAttacker = "player"
            /\ state.turn = call.pre.turn + 1
            /\ Len(state.log) = Len(call.pre.log) + 1

\* On the player's turn of a running battle an ability on cooldown is refused.
C2_Witness ==
    /\ call.op = "useAbility" /\ ~call.set
    /\ call.pre # Null
    /\ call.pre.turn % 2 = 0
    /\ ~call.pre.gameOver
    /\ call.ability.currentCooldown > 0
    /\ state = call.pre

\* C3: game over is terminal.  Once gameOver is true no useAbility call and
\* no enemyTurn firing changes the battle state; only a new initialisation
\* replaces it.
C3_GameOverTerminal ==
    [][(state # Null /\ state.gameOver /\ call'.op # "reset") =>
          /\ state'.player.currentHP = state.player.currentHP
          /\ state'.enemy.currentHP = state.enemy.currentHP
          /\ state'.player.shield = state.player.shield
          /\ state'.enemy.shield = state.enemy.shield
          /\ state'.turn = state.turn
          /\ state'.log = state.log
          /\ state'.gameOver]_vars

\* A useAbility call made on the player's turn after the battle was lost.
C3_Witness ==
    /\ call.op = "useAbility"
    /\ call.pre # Null
    /\ call.pre.gameOver
    /\ call.pre.turn % 2 = 0
    /\ call.ability.currentCooldown = 0
    /\ state.gameOver

\* C4: an attack takes min(power, shield) from the target's shield and the
\* rest from its HP, never below 0.
C4_AttackLaw ==
    (Acted /\ call.ability.type = "attack") =>
       LET power   == call.ability.power
           applied == power - Min(power, TargetBefore.shield)
       IN /\ TargetAfter.shield = Max(0, TargetBefore.shield - power)
          /\ TargetAfter.currentHP = Max(0, TargetBefore.currentHP - applied)

\* Shield 15 hit by power 20: the shield is gone and HP drops by 5.
C4_Witness ==
    /\ Acted /\ call.ability.type = "attack"
    /\ call.ability.power = 20
    /\ TargetBefore.shield = 15
    /\ TargetAfter.shield = 0
    /\ TargetAfter.currentHP = TargetBefore.currentHP - 5

\* C5: a heal restores min(power, maxHP - currentHP) and never goes over maxHP.
C5_HealLaw ==
    (Acted /\ call.ability.type = "heal") =>
       LET healed == Min(call.ability.power, SourceBefore.maxHP - SourceBefore.currentHP)
       IN /\ SourceAfter.currentHP = SourceBefore.currentHP + healed
          /\ SourceAfter.currentHP <= SourceAfter.maxHP

\* 90/100 healed by 25 gives 100.
C5_Witness ==
    /\ Acted /\ call.ability.type = "heal"
    /\ call.ability.power = 25
    /\ SourceBefore.currentHP = 90 /\ SourceBefore.maxHP = 100
    /\ SourceAfter.currentHP = 100

\* C6: a shield cast adds its power to the caster's shield, whatever the
\* shield was, and a shield changes in no other way than by such a cast of
\* its owner or by an attack on its owner.
C6_ShieldLaw ==
    Acted =>
       /\ call.ability.type = "shield" =>
             SourceAfter.shield = SourceBefore.shield + call.ability.power
       /\ call.ability.type # "shield" => SourceAfter.shield = SourceBefore.shield
       /\ call.ability.type # "attack" => TargetAfter.shield = TargetBefore.shield

\* A second shield cast on top of a shield that survived the turns between.
C6_Witness ==
    /\ Acted /\ call.ability.type = "shield"
    /\ SourceBefore.shield = 35
    /\ call.ability.power = 35
    /\ SourceAfter.shield = 70
    /\ state.turn >= 3

\* C7: after a combatant uses ability A, A.currentCooldown = A.cooldown,
\* each of its other abilities that was above 0 is lower by exactly 1 and
\* each that was at 0 stays at 0, whatever the type of A.
C7_CooldownLaw ==
    Acted =>
       /\ DOMAIN SourceAfter.abilities = DOMAIN SourceBefore.abilities
       /\ \A i \in DOMAIN SourceBefore.abilities :
             LET b == SourceBefore.abilities[i]
                 a == SourceAfter.abilities[i]
             IN IF b.name = call.ability.name
                THEN a.currentCooldown = b.cooldown
                ELSE IF b.currentCooldown > 0
                     THEN a.currentCooldown = b.currentCooldown - 1
                     ELSE a.currentCooldown = 0

\* A cast that starts a cooldown, ticks another one down and leaves a third at 0.
C7_Witness ==
    /\ Acted
    /\ call.ability.cooldown > 0
    /\ \E i, j \in DOMAIN SourceBefore.abilities :
          /\ SourceBefore.abilities[i].name # call.ability.name
          /\ SourceBefore.abilities[i].currentCooldown > 1
          /\ SourceAfter.abilities[i].currentCooldown
                = SourceBefore.abilities[i].currentCooldown - 1
          /\ SourceBefore.abilities[j].name # call.ability.name
          /\ SourceBefore.abilities[j].currentCooldown = 0
          /\ SourceAfter.abilities[j].currentCooldown = 0

\* C8: enemy stall.  An enemyTurn that fires on an odd turn of a running
\* battle while every enemy ability is on cooldown leaves the whole state
\* (log, HP, shields, cooldowns, turn) as it was.
C8_EnemyStall ==
    (/\ call.op = "enemyTurn"
     /\ call.pre.turn % 2 = 1
     /\ ~call.pre.gameOver
     /\ \A i \in DOMAIN call.pre.enemy.abilities :
           call.pre.enemy.abilities[i].currentCooldown > 0)
    => /\ state.log = call.pre.log
       /\ state.player = call.pre.player
       /\ state.enemy = call.pre.enemy
       /\ state.turn = call.pre.turn
       /\ state.turn % 2 = 1

\* The enemy's timeout fired while all its abilities were on cooldown.
C8_Witness ==
    /\ call.op = "enemyTurn"
    /\ ~call.set
    /\ ~call.pre.gameOver
    /\ Len(call.pre.enemy.abilities) > 1
    /\ \A i \in DOMAIN call.pre.enemy.abilities :
          call.pre.enemy.abilities[i].currentCooldown > 0
    /\ state = call.pre

\* The log line of the player's cast of its i-th ability on turn 0.
FirstCastLine(i) ==
    LET s0 == pairOf(props)
    IN applyAbility(s0.player, s0.enemy, s0.player.abilities[i], TRUE).logEntry

\* The player opened the battle with its i-th ability.
FirstCast(i) == state.turn >= 1 /\ state.log[2] = FirstCastLine(i)

\* C9: cooldown duration.  An ability is refused to the player and never
\* chosen by the enemy while its currentCooldown is positive, and is usable
\* as soon as it is 0; an ability with cooldown c > 0 cast on turn 0 has
\* currentCooldown c on turn 2, c - 1 on turn 4 and so on down to 1 (for
\* c = 3: 3 on turn 2, 2 on turn 4), and is usable again once it shows 0.
C9_CooldownDuration ==
    /\ (call.op = "useAbility" /\ call.pre # Null
        /\ call.pre.turn % 2 = 0 /\ ~call.pre.gameOver)
          => (call.set <=> call.ability.currentCooldown = 0)
    /\ (call.op = "enemyTurn" /\ call.set) => call.ability.currentCooldown = 0
    /\ state # Null =>
          \A i \in DOMAIN state.player.abilities :
             LET a == state.player.abilities[i]
             IN \A k \in 1 .. a.cooldown :
                   (FirstCast(i) /\ state.turn = 2 * k)
                      => /\ a.currentCooldown = a.cooldown - k + 1
                         /\ useAbility(state, a) = Null

\* Turn 4 after a cooldown-3 ability opened the battle: it shows 2 and the
\* call that passes it is refused.
C9_Witness ==
    /\ state # Null
    /\ state.turn = 4
    /\ ~state.gameOver
    /\ call.op = "useAbility" /\ ~call.set
    /\ \E i \in DOMAIN state.player.abilities :
          /\ state.player.abilities[i].cooldown = 3
          /\ FirstCast(i)
          /\ state.player.abilities[i].currentCooldown = 2
          /\ call.ability = state.player.abilities[i]

\* C10: every initialisation yields turn 0, a log of exactly the opening
\* line, no last attacker, no last effect, gameOver false, both shields 0,
\* no status effects, both combatants at full HP and every cooldown at 0,
\* whatever the previous battle's state was.
C10_FreshBattle ==
    call.op = "reset" =>
       /\ state.turn = 0
       /\ Len(state.log) = 1
       /\ state.log[1] = "Souboj zacal!"
       /\ state.lastAttacker = "null"
       /\ state.lastEffect = Null
       /\ ~state.gameOver
       /\ \A c \in {state.player, state.enemy} :
             /\ c.shield = 0
             /\ c.statusEffects = <<>>
             /\ c.currentHP = c.maxHP
             /\ \A i \in DOMAIN c.abilities : c.abilities[i].currentCooldown = 0
       /\ state.player.name = characters[props.player].name
       /\ state.enemy.name = enemiesByDifficulty[props.difficulty].name

\* A new battle started over a finished one.
C10_Witness ==
    /\ call.op = "reset"
    /\ call.pre # Null
    /\ call.pre.gameOver
    /\ call.pre.turn > 0
    /\ state.turn = 0 /\ ~state.gameOver

\* C11: a pending enemy callback is cancelled when the state moves on.  A
\* pending timeout always closes over the current state, an initialisation
\* leaves no timeout pending, and a resolved enemy action is computed from
\* the state it replaces.
C11_PendingCancelled ==
    /\ timer # Null => timer = state
    /\ call.op = "reset" => timer = Null
    /\ (call.op = "enemyTurn" /\ call.set) =>
          \E k \in 0 .. Len(available(call.pre.enemy)) - 1 :
             state = enemyTurn(call.pre, k)

\* A new battle was initialised while the enemy's timeout was pending.
C11_Witness ==
    /\ call.op = "reset"
    /\ call.pre # Null
    /\ call.pre.turn % 2 = 1
    /\ ~call.pre.gameOver
    /\ timer = Null
    /\ state.turn = 0

\* C12: automatic enemy response.  The timeout is pending only on an odd
\* turn of a running battle; it is armed by the step that makes turn odd
\* and by no other; once enemyTurn has fired nothing is pending for that
\* turn; and a pending timeout leads to enemyTurn firing unless a new
\* battle is initialised first.
C12_AutomaticEnemy ==
    /\ [](timer # Null => (state.turn % 2 = 1 /\ ~state.gameOver))
    /\ [](call.op = "enemyTurn" => timer = Null)
    /\ [][(state' # state /\ state'.turn % 2 = 1 /\ ~state'.gameOver)
             => timer' = state']_vars
    /\ [][(timer' # Null /\ timer' # timer)
             => (call'.op = "useAbility" /\ call'.set)]_vars
    /\ ((timer # Null /\ state.turn < MaxFairTurn)
           ~> (call.op = "enemyTurn" \/ call.op = "reset"))

\* The enemy answered on turn 3 and nothing is left pending.
C12_Witness ==
    /\ call.op = "enemyTurn" /\ call.set
    /\ call.pre.turn = 3
    /\ state.turn = 4
    /\ timer = Null

\* C13: in every state of a battle gameOver is true exactly when at least
\* one combatant's currentHP is 0.
C13_GameOverIffDead ==
    state # Null =>
       (state.gameOver <=> (state.player.currentHP = 0 \/ state.enemy.currentHP = 0))

\* The enemy's attack brought the player to 0.
C13_Witness ==
    /\ state # Null
    /\ state.gameOver
    /\ state.player.currentHP = 0
    /\ state.lastAttacker = "enemy"
    /\ call.op = "enemyTurn"

\* The sides of the last operation as the effect record names them.
OwnSide == IF call.op = "useAbility" THEN "player" ELSE "enemy"

OtherSide == IF call.op = "useAbility" THEN "enemy" ELSE "player"

\* C14 as stated: the value of an attack's effect equals the HP the target
\* lost (and heal and shield effects name the acting side with the amount
\* healed, respectively the power).
C14_Original ==
    Acted =>
       /\ call.ability.type = "attack" =>
             state.lastEffect =
                [type |-> "damage", target |-> OtherSide,
                 value |-> TargetBefore.currentHP - TargetAfter.currentHP]
       /\ call.ability.type = "heal" =>
             state.lastEffect =
                [type |-> "heal", target |-> OwnSide,
                 value |-> SourceAfter.currentHP - SourceBefore.currentHP]
       /\ call.ability.type = "shield" =>
             state.lastEffect =
                [type |-> "shield", target |-> OwnSide, value |-> call.ability.power]

\* C14 as amended: the value of an attack's effect is the damage left after
\* the shield's absorption, power - min(power, shield before); it equals the
\* HP the target lost unless it exceeds the HP the target had, and then the
\* target is at 0.  Heal and shield effects name the acting side with the
\* amount healed, respectively the power.
C14_EffectRecord ==
    Acted =>
       /\ call.ability.type = "attack" =>
             LET value == call.ability.power
                             - Min(call.ability.power, TargetBefore.shield)
             IN /\ state.lastEffect =
                      [type |-> "damage", target |-> OtherSide, value |-> value]
                /\ value <= TargetBefore.currentHP =>
                      value = TargetBefore.currentHP - TargetAfter.currentHP
                /\ value > TargetBefore.currentHP => TargetAfter.currentHP = 0
       /\ call.ability.type = "heal" =>
             state.lastEffect =
                [type |-> "heal", target |-> OwnSide,
                 value |-> SourceAfter.currentHP - SourceBefore.currentHP]
       /\ call.ability.type = "shield" =>
             state.lastEffect =
                [type |-> "shield", target |-> OwnSide, value |-> call.ability.power]

\* A killing blow stronger than the HP that was left.
C14_Witness ==
    /\ Acted /\ call.ability.type = "attack"
    /\ TargetAfter.currentHP = 0
    /\ state.lastEffect.value > TargetBefore.currentHP
    /\ state.lastEffect.target = OtherSide

\* C15: the log has turn + 1 lines; a resolved action appends exactly one
\* line to the log it found; an ignored call or a stalled enemyTurn leaves
\* the log as it was.
C15_LogAppendOnly ==
    /\ state # Null => Len(state.log) = state.turn + 1
    /\ Acted =>
          /\ Len(state.log) = Len(call.pre.log) + 1
          /\ SubSeq(state.log, 1, Len(call.pre.log)) = call.pre.log
    /\ (call.op \in {"useAbility", "enemyTurn"} /\ ~call.set /\ call.pre # Null) =>
          state.log = call.pre.log

\* The fourth line of a log, appended by the player's second action.
C15_Witness ==
    /\ Acted
    /\ call.op = "useAbility"
    /\ state.turn = 3
    /\ Len(state.log) = 4
    /\ SubSeq(state.log, 1, 3) = call.pre.log

\* C16: for both combatants 0 <= currentHP <= maxHP, shield >= 0 and maxHP
\* is the value the battle started with.
C16_HPShieldRange ==
    state # Null =>
       /\ \A c \in {state.player, state.enemy} :
             /\ 0 <= c.currentHP /\ c.currentHP <= c.maxHP
             /\ c.shield >= 0
       /\ state.player.maxHP = pairOf(props).player.maxHP
       /\ state.enemy.maxHP = pairOf(props).enemy.maxHP

\* Both ends of the range: one combatant at 0, the other healed back to full.
C16_Witness ==
    /\ state # Null
    /\ state.enemy.currentHP = 0
    /\ state.player.currentHP = state.player.maxHP
    /\ state.player.shield > 0
    /\ state.turn >= 3

\* The abilities of a combatant with the cooldown counters left out.
Fixed(abilities) ==
    [i \in DOMAIN abilities |->
        [name |-> abilities[i].name, type |-> abilities[i].type,
         power |-> abilities[i].power, cooldown |-> abilities[i].cooldown]]

\* C17: every ability has 0 <= currentCooldown <= cooldown, and the order,
\* cooldown, power and type of each combatant's abilities are those the
\* battle started with.
C17_CooldownRange ==
    state # Null =>
       /\ \A c \in {state.player, state.enemy} :
             \A i \in DOMAIN c.abilities :
                /\ 0 <= c.abilities[i].currentCooldown
                /\ c.abilities[i].currentCooldown <= c.abilities[i].cooldown
       /\ Fixed(state.player.abilities) = Fixed(pairOf(props).player.abilities)
       /\ Fixed(state.enemy.abilities) = Fixed(pairOf(props).enemy.abilities)

\* One ability at its full cooldown, another part of the way down.
C17_Witness ==
    /\ state # Null
    /\ \E i, j \in DOMAIN state.player.abilities :
          /\ state.player.abilities[i].cooldown > 0
          /\ state.player.abilities[i].currentCooldown = state.player.abilities[i].cooldown
          /\ state.player.abilities[j].currentCooldown > 0
          /\ state.player.abilities[j].currentCooldown < state.player.abilities[j].cooldown

\* A useAbility call with some ability of the player would be accepted.
PlayerCanAct ==
    \E i \in DOMAIN state.player.abilities :
       ~useAbilityRejects(state, state.player.abilities[i])

\* An enemyTurn firing would resolve an action.
EnemyCanAct == ~enemyTurnRejects(state)

\* C18: player and enemy actions never overlap and strictly alternate.  In
\* no state are both acceptable; lastAttacker is none iff turn = 0, player
\* iff turn is odd, enemy iff turn is even and > 0; consecutive resolved
\* actions come from opposite sides.
C18_Alternation ==
    /\ state # Null =>
          /\ ~(PlayerCanAct /\ EnemyCanAct)
          /\ state.lastAttacker = "null" <=> state.turn = 0
          /\ state.lastAttacker = "player" <=> state.turn % 2 = 1
          /\ state.lastAttacker = "enemy" <=> (state.turn % 2 = 0 /\ state.turn > 0)
    /\ Acted => state.lastAttacker # call.pre.lastAttacker

\* After the enemy's answer it is the player's move again, and only the player's.
C18_Witness ==
    /\ state # Null
    /\ state.turn = 2
    /\ state.lastAttacker = "enemy"
    /\ PlayerCanAct
    /\ ~EnemyCanAct
    /\ call.pre.lastAttacker = "player"

\* C19: after an accepted useAbility gameOver = (enemy.currentHP <= 0) and
\* after a resolved enemyTurn gameOver = (player.currentHP <= 0): the HP of
\* the side that acted never decides it.
C19_GameOverByTarget ==
    Acted =>
       /\ state.gameOver <=> (TargetAfter.currentHP <= 0)
       /\ SourceAfter.currentHP > 0

\* The player's attack ended the battle.
C19_Witness ==
    /\ Acted
    /\ call.op = "useAbility"
    /\ state.gameOver
    /\ state.enemy.currentHP = 0
    /\ state.player.currentHP < state.player.maxHP

\* C20: frame of an action.  An attack leaves the source's currentHP and
\* shield as they were; a heal or shield leaves the target's currentHP and
\* shield as they were; every action leaves the target's abilities, with
\* their cooldowns, as they were.
C20_Frame ==
    Acted =>
       /\ call.ability.type = "attack" =>
             /\ SourceAfter.currentHP = SourceBefore.currentHP
             /\ SourceAfter.shield = SourceBefore.shield
       /\ call.ability.type \in {"heal", "shield"} =>
             /\ TargetAfter.currentHP = TargetBefore.currentHP
             /\ TargetAfter.shield = TargetBefore.shield
       /\ TargetAfter.abilities = TargetBefore.abilities

\* The enemy healed while the player stood wounded, shielded and with an
\* ability on cooldown: nothing of the player moved.
C20_Witness ==
    /\ Acted
    /\ call.op = "enemyTurn"
    /\ call.ability.type = "heal"
    /\ TargetBefore.shield > 0
    /\ TargetBefore.currentHP < TargetBefore.maxHP
    /\ \E i \in DOMAIN TargetBefore.abilities :
          TargetBefore.abilities[i].currentCooldown > 0
    /\ TargetAfter = TargetBefore

\* C21: when gameOver is true exactly one combatant is at 0 HP, and it is
\* the opponent of lastAttacker; so player.currentHP > 0, the condition of
\* the victory banner, holds exactly when the player made the last action.
C21_OneLoser ==
    (state # Null /\ state.gameOver) =>
       /\ state.lastAttacker \in {"player", "enemy"}
       /\ ~(state.player.currentHP = 0 /\ state.enemy.currentHP = 0)
       /\ state.lastAttacker = "player" =>
             (state.enemy.currentHP = 0 /\ state.player.currentHP > 0)
       /\ state.lastAttacker = "enemy" =>
             (state.player.currentHP = 0 /\ state.enemy.currentHP > 0)
       /\ state.player.currentHP > 0 <=> state.lastAttacker = "player"

\* A lost battle: the enemy acted last, the player is at 0 and the enemy,
\* though wounded, is not.
C21_Witness ==
    /\ state # Null
    /\ state.gameOver
    /\ state.lastAttacker = "enemy"
    /\ state.player.currentHP = 0
    /\ state.enemy.currentHP > 0
    /\ state.enemy.currentHP < state.enemy.maxHP

\* The combatant owns an ability without cooldown.
HasFreeAbility(c) == \E i \in DOMAIN c.abilities : c.abilities[i].cooldown = 0

\* The combatant has an ability that is not on cooldown.
HasReadyAbility(c) == \E i \in DOMAIN c.abilities : c.abilities[i].currentCooldown = 0

\* C22: a combatant that owns an ability with cooldown 0 has an ability with
\* currentCooldown 0 in every state; and the player, whichever of the
\* built-in characters it is, has an acceptable ability on every even turn
\* of a running battle.
C22_NeverLocked ==
    state # Null =>
       /\ \A c \in {state.player, state.enemy} :
             HasFreeAbility(c) => HasReadyAbility(c)
       /\ \A i \in DOMAIN characters : HasFreeAbility(characters[i])
       /\ (state.turn % 2 = 0 /\ ~state.gameOver) => PlayerCanAct

\* The enemy's turn with every ability but its cooldown-0 one on cooldown,
\* after the player has spent two abilities with a cooldown.
C22_Witness ==
    /\ state # Null
    /\ state.turn = 3
    /\ ~state.gameOver
    /\ EnemyCanAct
    /\ Len(state.enemy.abilities) > 1
    /\ \A i \in DOMAIN state.enemy.abilities :
          state.enemy.abilities[i].currentCooldown = 0
             <=> state.enemy.abilities[i].cooldown = 0
    /\ Cardinality({i \in DOMAIN state.player.abilities :
                       state.player.abilities[i].currentCooldown > 0}) = 2

\* The enemy's turn of a running battle with no timeout pending: the enemy
\* has stalled.
Stalled ==
    /\ state # Null
    /\ state.turn % 2 = 1
    /\ ~state.gameOver
    /\ timer = Null

\* C23: an enemy stall is permanent.  After enemyTurn has fired with every
\* enemy ability on cooldown the battle is stalled: no timeout is pending;
\* and from a stalled battle every step that is not a new initialisation
\* leaves the battle state (cooldowns, turn, gameOver and all) as it is and
\* arms no timeout.
C23_StallPermanent ==
    /\ []((/\ call.op = "enemyTurn"
           /\ \A i \in DOMAIN call.pre.enemy.abilities :
                 call.pre.enemy.abilities[i].currentCooldown > 0)
          => (Stalled /\ state = call.pre))
    /\ [][(Stalled /\ call'.op # "reset")
             => (state' = state /\ timer' = Null)]_vars

\* The player tried an ability that is off cooldown in a stalled battle.
C23_Witness ==
    /\ Stalled
    /\ call.op = "useAbility"
    /\ ~call.set
    /\ call.ability.currentCooldown = 0
    /\ call.pre = state
    /\ \A i \in DOMAIN state.enemy.abilities :
          state.enemy.abilities[i].currentCooldown > 0

=============================================================================
